---- MODULE Spec2Model ----
(***************************************************************************)
(* Caltech COVID-19 case log: the time-aggregation pipeline.               *)
(*                                                                         *)
(*   plot script     load_caltech_data -> caltech_weekly_sums              *)
(*                                     -> caltech_daily_average            *)
(*   process script  sum_by_week -> calculate_rolling_avg                  *)
(*   import script   download per year -> load -> export                   *)
(*                                                                         *)
(* A date is the number of days since 2020-01-01 (a Wednesday).  A data    *)
(* frame is the sequence of its rows, in row order.  A rolling mean is the *)
(* pair <<window sum, window length>>, or NaN.                             *)
(***************************************************************************)
EXTENDS Integers, Sequences, FiniteSets, TLC

VARIABLES obs, pc, df, all_dates, affiliations, df_weekly_sum,
          df_total_rolling, csv_weekly, csv_7_day_avg,
          outdir, written, run, first_run,
          import_pc, year_pos, county_files, log, la_csv

vars == <<obs, pc, df, all_dates, affiliations, df_weekly_sum,
          df_total_rolling, csv_weekly, csv_7_day_avg,
          outdir, written, run, first_run,
          import_pc, year_pos, county_files, log, la_csv>>

----------------------------------------------------------------------------
(* Calendar *)

\* datetime.date(2020, 3, 11) as a day number: 31 + 29 + 10
WHO_DATE == 70

\* date.weekday(): Monday = 0 .. Sunday = 6
weekday(d) == (d + 2) % 7

\* the subtraction without the extra day: the Monday of the week of WHO_DATE
START_DATE_monday == WHO_DATE - weekday(WHO_DATE)

\* START_DATE -= timedelta(days=START_DATE.weekday()) + timedelta(days=1)
START_DATE == WHO_DATE - (weekday(WHO_DATE) + 1)

\* the plot scripts compute the same constant under the name start_date
start_date == WHO_DATE - (weekday(WHO_DATE) + 1)

\* pd.to_timedelta(7, unit="d"), the shift applied before weekly grouping
SHIFT_DAYS == 7

\* rolling(window=7)
WINDOW == 7

NaN == "NaN"

\* a range that stops the day before its end
date_range_exclusive(start, end) ==
    IF end <= start THEN <<>> ELSE [i \in 1..(end - start) |-> start + i - 1]

\* pd.date_range(start, end, freq="D") / np.arange(start, end + 1 day)
date_range(start, end) ==
    IF end < start THEN <<>> ELSE [i \in 1..(end - start + 1) |-> start + i - 1]

\* weeks labelled by the Sunday on or before the date (weeks starting on Sunday)
week_label_left(d) == d - ((weekday(d) + 1) % 7)

\* pd.Grouper(key="date", freq="W"): weeks end on Sunday, bins are closed and
\* labelled on the right, so a date falls in the bin of the Sunday on or after it
week_label(d) == d + (6 - weekday(d))

----------------------------------------------------------------------------
(* Inputs *)

MaxLen == 2

Affiliations == {"faculty", "students"}

\* string comparison of the affiliation names, as used by groupby's sorted keys
AffOrd == [a \in Affiliations |-> IF a = "faculty" THEN 1 ELSE 2]

CaseCounts == {2, 3}

ObsDates == {START_DATE - 7, START_DATE - 1, START_DATE, START_DATE + 1,
             START_DATE + 6, START_DATE + 7, START_DATE + 8}

Observation == [date : ObsDates, affiliation : Affiliations, case : CaseCounts]

Inputs == UNION {[1..n -> Observation] : n \in 1..MaxLen}

----------------------------------------------------------------------------
(* Data frame helpers *)

Range(s) == {s[i] : i \in DOMAIN s}

RECURSIVE SumCase(_)
SumCase(rows) ==
    IF rows = <<>> THEN 0 ELSE Head(rows)["case"] + SumCase(Tail(rows))

Min(S) == CHOOSE x \in S : \A y \in S : x <= y
Max(S) == CHOOSE x \in S : \A y \in S : y <= x

\* df[col].unique(): distinct values in order of first appearance
RECURSIVE unique(_)
unique(s) ==
    IF s = <<>> THEN <<>>
    ELSE LET init == unique(SubSeq(s, 1, Len(s) - 1))
             x == s[Len(s)]
         IN IF x \in Range(init) THEN init ELSE Append(init, x)

\* stable ordering of rows by date (row order only feeds order-insensitive sums)
RECURSIVE sort_values_date(_)
sort_values_date(rows) ==
    IF rows = <<>> THEN <<>>
    ELSE LET m == Min({rows[i].date : i \in DOMAIN rows})
         IN SelectSeq(rows, LAMBDA r : r.date = m)
            \o sort_values_date(SelectSeq(rows, LAMBDA r : r.date # m))

\* keys of groupby(['date', 'affiliation']), sorted by date then affiliation
RECURSIVE sorted_date_keys(_)
sorted_date_keys(K) ==
    IF K = {} THEN <<>>
    ELSE LET k == CHOOSE x \in K : \A y \in K :
                      \/ x[1] < y[1]
                      \/ x[1] = y[1] /\ AffOrd[x[2]] <= AffOrd[y[2]]
         IN <<k>> \o sorted_date_keys(K \ {k})

\* a grouping that keeps the last row of each (date, affiliation) instead of the sum
groupby_date_affiliation_last(rows) ==
    LET keys == sorted_date_keys({<<rows[i].date, rows[i].affiliation>> :
                                      i \in DOMAIN rows})
    IN [i \in 1..Len(keys) |->
           LET m == SelectSeq(rows, LAMBDA r :
                        r.date = keys[i][1] /\ r.affiliation = keys[i][2])
           IN [date |-> keys[i][1], affiliation |-> keys[i][2],
               case |-> m[Len(m)]["case"]]]

\* df.groupby(['date', 'affiliation']).sum().reset_index()
groupby_date_affiliation_sum(rows) ==
    LET keys == sorted_date_keys({<<rows[i].date, rows[i].affiliation>> :
                                      i \in DOMAIN rows})
    IN [i \in 1..Len(keys) |->
           [date |-> keys[i][1], affiliation |-> keys[i][2],
            case |-> SumCase(SelectSeq(rows, LAMBDA r :
                         r.date = keys[i][1] /\ r.affiliation = keys[i][2]))]]

\* ascending sequence of a set of dates
RECURSIVE sorted_dates(_)
sorted_dates(D) ==
    IF D = {} THEN <<>> ELSE <<Min(D)>> \o sorted_dates(D \ {Min(D)})

\* df.groupby('date')['case'].sum().reset_index(): one row per date, by date
groupby_date_sum(rows) ==
    LET dates == sorted_dates({rows[i].date : i \in DOMAIN rows})
    IN [i \in 1..Len(dates) |->
           [date |-> dates[i],
            case |-> SumCase(SelectSeq(rows, LAMBDA r : r.date = dates[i]))]]

\* a window centred on the row: the 3 rows before it and the 3 rows after it
rolling_mean_centred(rows) ==
    [i \in 1..Len(rows) |->
        [date |-> rows[i].date,
         case |-> IF i - 3 < 1 \/ i + 3 > Len(rows) THEN NaN
                  ELSE <<SumCase(SubSeq(rows, i - 3, i + 3)), WINDOW>>]]

\* Series.rolling(7).mean(): a window of the last 7 ROWS, NaN until it is full
rolling_mean(rows) ==
    [i \in 1..Len(rows) |->
        [date |-> rows[i].date,
         case |-> IF i < WINDOW THEN NaN
                  ELSE <<SumCase(SubSeq(rows, i - WINDOW + 1, i)), WINDOW>>]]

----------------------------------------------------------------------------
(* plot script: load_caltech_data *)

\* df.iloc[-1]['date']: the date of the LAST ROW of the file
last_row_date(rows) == rows[Len(rows)].date

\* the zero rows of one affiliation over all_dates
df_blank(dates, affiliation) ==
    [i \in 1..Len(dates) |->
        [date |-> dates[i], affiliation |-> affiliation, case |-> 0]]

\* the loop over affiliations: concat the blank rows, sort by date
RECURSIVE fill_in_dates(_, _, _)
fill_in_dates(rows, dates, affs) ==
    IF affs = <<>> THEN rows
    ELSE fill_in_dates(sort_values_date(rows \o df_blank(dates, Head(affs))),
                       dates, Tail(affs))

\* a loader that keeps only the rows dated within all_dates
load_caltech_data_clipped(rows) ==
    LET current_date == last_row_date(rows)
        dates == date_range(start_date, current_date)
        affs == unique([i \in DOMAIN rows |-> rows[i].affiliation])
        kept == SelectSeq(rows, LAMBDA r :
                    start_date <= r.date /\ r.date <= current_date)
    IN [df |-> groupby_date_affiliation_sum(fill_in_dates(kept, dates, affs)),
        all_dates |-> dates,
        affiliations |-> affs]

load_caltech_data(rows) ==
    LET current_date == last_row_date(rows)
        dates == date_range(start_date, current_date)
        affs == unique([i \in DOMAIN rows |-> rows[i].affiliation])
    IN [df |-> groupby_date_affiliation_sum(fill_in_dates(rows, dates, affs)),
        all_dates |-> dates,
        affiliations |-> affs]

----------------------------------------------------------------------------
(* weekly sums: caltech_weekly_sums (plot script), sum_by_week (process) *)

\* grouping without the 7-day shift
shift_dates_none(rows) == rows

\* df_copy['date'] = df_copy['date'] - pd.to_timedelta(7, unit='d')
shift_dates(rows) ==
    [i \in DOMAIN rows |-> [rows[i] EXCEPT !.date = rows[i].date - SHIFT_DAYS]]

\* the caller's frame had the shift been applied to the frame itself
df_after_shift_in_place(rows) == shift_dates(rows)

\* df_copy = df.copy(): the shift is applied to a copy, the frame the caller
\* passed in keeps its rows and their dates
df_after_copy(rows) == rows

\* groupby(['affiliation', pd.Grouper(key='date', freq='W')])['case'].sum():
\* one row per (affiliation, week) that has at least one daily row
weekly_groupby_sum(rows) ==
    {[affiliation |-> a, week_of |-> w,
      total_cases |-> SumCase(SelectSeq(rows, LAMBDA r :
                          r.affiliation = a /\ week_label(r.date) = w))] :
        <<a, w>> \in {<<rows[i].affiliation, week_label(rows[i].date)>> :
                         i \in DOMAIN rows}}

\* every arrangement of a set of rows in a sequence
orderings(M) ==
    {f \in [1..Cardinality(M) -> M] :
        \A i, j \in 1..Cardinality(M) : i # j => f[i] # f[j]}

\* the rows left in an arbitrary order, the sort skipped
sort_values_week_skipped(S) == orderings(S)

\* sort_values('date') uses an unstable sort: rows are in ascending week order,
\* rows of the same week in any order
RECURSIVE sort_values_week(_)
sort_values_week(S) ==
    IF S = {} THEN {<<>>}
    ELSE LET m == Min({r.week_of : r \in S})
             M == {r \in S : r.week_of = m}
         IN {p \o q : p \in orderings(M), q \in sort_values_week(S \ M)}

\* df_weekly_sum.drop(list(np.arange(n)), axis=0): the first n rows by position
drop_first_rows(rows, n) == SubSeq(rows, n + 1, Len(rows))

\* the frames caltech_weekly_sums can return (the extra 'index' column that the
\* second reset_index adds is not represented)
caltech_weekly_sums(rows) ==
    {drop_first_rows(sorted, Cardinality({r.affiliation : r \in Range(sorted)})) :
        sorted \in sort_values_week(weekly_groupby_sum(shift_dates(rows)))}

\* the row sequences sum_by_week can write to caltech_covid_cases_weekly.csv
sum_by_week(rows) == sort_values_week(weekly_groupby_sum(shift_dates(rows)))

----------------------------------------------------------------------------
(* rolling averages: caltech_daily_average (plot), calculate_rolling_avg *)

caltech_daily_average(rows) ==
    rolling_mean(sort_values_date(groupby_date_sum(rows)))

\* a re-indexing that keeps the dates that have a row and adds none
reindex_observed(rows, dates) ==
    SelectSeq(rows, LAMBDA r : r.date \in Range(dates))

\* df_all_groups.reindex(pd.date_range(START_DATE, end_date), fill_value=0)
reindex(rows, dates) ==
    [i \in 1..Len(dates) |->
        [date |-> dates[i],
         case |-> IF \E j \in DOMAIN rows : rows[j].date = dates[i]
                  THEN rows[CHOOSE j \in DOMAIN rows : rows[j].date = dates[i]]["case"]
                  ELSE 0]]

calculate_rolling_avg(rows) ==
    LET end_date == last_row_date(rows)
    IN rolling_mean(reindex(groupby_date_sum(rows),
                            date_range(START_DATE, end_date)))

----------------------------------------------------------------------------
(* The two scripts as state machines over one input file *)

plot_vars == <<df, all_dates, affiliations, df_weekly_sum, df_total_rolling>>

run_vars == <<outdir, written, run, first_run>>

import_vars == <<import_pc, year_pos, county_files, log, la_csv>>

MaxRuns == 2

\* the file has a header and 0..MaxLen rows
Files == Inputs \cup {<<>>}

\* if not os.path.exists(args.output_dir): the directory is made when absent
mkdir_always(exists) == TRUE

mkdir_needed(exists) == ~exists

\* DataFrame.to_csv(path, index=False) appending to what the file holds
to_csv_append(old, rows) == old \o rows

\* DataFrame.to_csv(path, index=False): the file is replaced by the rows
to_csv(old, rows) == rows

\* a sort is a function of its input: a frame that was sorted before (its file
\* is on disk from the run before) comes out in the same order again
sorted_again(outcomes, before) ==
    IF before \in outcomes THEN {before} ELSE outcomes

NoImport ==
    /\ import_pc = "idle"
    /\ year_pos = 0
    /\ county_files = {}
    /\ log = <<>>
    /\ la_csv = <<>>

Init ==
    /\ obs \in Files
    /\ pc = "start"
    /\ df = <<>>
    /\ all_dates = <<>>
    /\ affiliations = <<>>
    /\ df_weekly_sum = <<>>
    /\ df_total_rolling = <<>>
    /\ csv_weekly = <<>>
    /\ csv_7_day_avg = <<>>
    /\ outdir = FALSE
    /\ written = {}
    /\ run = 1
    /\ first_run = <<>>
    /\ NoImport

\* plot script: df, all_dates, affiliations = load_caltech_data();
\* df.iloc[-1] raises IndexError on a file without rows
LoadCaltechData ==
    /\ pc = "start"
    /\ IF obs = <<>>
       THEN /\ pc' = "load_failed"
            /\ UNCHANGED <<df, all_dates, affiliations>>
       ELSE /\ LET r == load_caltech_data(obs)
               IN /\ df' = r.df
                  /\ all_dates' = r.all_dates
                  /\ affiliations' = r.affiliations
            /\ pc' = "loaded"
    /\ UNCHANGED <<obs, df_weekly_sum, df_total_rolling, csv_weekly, csv_7_day_avg>>
    /\ UNCHANGED <<run_vars, import_vars>>

\* plot script: df_weekly_sum = caltech_weekly_sums(df)
CaltechWeeklySums ==
    /\ pc = "loaded"
    /\ df_weekly_sum' \in caltech_weekly_sums(df)
    /\ df' = df_after_copy(df)
    /\ pc' = "summed"
    /\ UNCHANGED <<obs, all_dates, affiliations, df_total_rolling,
                   csv_weekly, csv_7_day_avg>>
    /\ UNCHANGED <<run_vars, import_vars>>

\* plot script: df_total_rolling = caltech_daily_average(df)
CaltechDailyAverage ==
    /\ pc = "summed"
    /\ df_total_rolling' = caltech_daily_average(df)
    /\ pc' = "plotted"
    /\ UNCHANGED <<obs, df, all_dates, affiliations, df_weekly_sum,
                   csv_weekly, csv_7_day_avg>>
    /\ UNCHANGED <<run_vars, import_vars>>

\* process script: create the output directory if needed; os.mkdir raises
\* FileExistsError on a directory that exists
MakeOutputDir ==
    /\ pc \in {"start", "rerun"}
    /\ IF mkdir_needed(outdir)
       THEN IF outdir
            THEN pc' = "process_failed" /\ UNCHANGED outdir
            ELSE pc' = "dir_ready" /\ outdir' = TRUE
       ELSE pc' = "dir_ready" /\ UNCHANGED outdir
    /\ UNCHANGED <<obs, plot_vars, csv_weekly, csv_7_day_avg, written, run,
                   first_run, import_vars>>

\* process script: sum_by_week(df, args.output_dir) on the raw rows, which
\* writes caltech_covid_cases_weekly.csv
SumByWeek ==
    /\ pc = "dir_ready"
    /\ \E rows \in sorted_again(sum_by_week(obs),
                                IF run > 1 THEN first_run.weekly ELSE <<>>) :
          csv_weekly' = to_csv(csv_weekly, rows)
    /\ obs' = df_after_copy(obs)
    /\ written' = written \cup {"caltech_covid_cases_weekly.csv"}
    /\ pc' = "weekly_written"
    /\ UNCHANGED <<plot_vars, csv_7_day_avg, outdir, run, first_run,
                   import_vars>>

\* process script: calculate_rolling_avg(df, args.output_dir) on the raw rows,
\* which writes caltech_covid_cases_7_day_avg.csv; df.iloc[-1] raises
\* IndexError on a file without rows
CalculateRollingAvg ==
    /\ pc = "weekly_written"
    /\ IF obs = <<>>
       THEN /\ pc' = "process_failed"
            /\ UNCHANGED <<csv_7_day_avg, written>>
       ELSE /\ csv_7_day_avg' = to_csv(csv_7_day_avg, calculate_rolling_avg(obs))
            /\ written' = written \cup {"caltech_covid_cases_7_day_avg.csv"}
            /\ pc' = "processed"
    /\ UNCHANGED <<obs, plot_vars, csv_weekly, outdir, run, first_run,
                   import_vars>>

\* the process script is run again on the same file, the output directory
\* and the files of the run before being in place
Rerun ==
    /\ pc \in {"processed", "process_failed"}
    /\ run < MaxRuns
    /\ run' = run + 1
    /\ first_run' = IF run = 1
                    THEN [pc |-> pc, weekly |-> csv_weekly, avg |-> csv_7_day_avg,
                          written |-> written]
                    ELSE first_run
    /\ written' = {}
    /\ pc' = "rerun"
    /\ UNCHANGED <<obs, plot_vars, csv_weekly, csv_7_day_avg, outdir,
                   import_vars>>

Next ==
    \/ LoadCaltechData
    \/ CaltechWeeklySums
    \/ CaltechDailyAverage
    \/ MakeOutputDir
    \/ SumByWeek
    \/ CalculateRollingAvg
    \/ Rerun

Spec == Init /\ [][Next]_vars

----------------------------------------------------------------------------
(* import script: import_la_county_data.py *)

\* the keys of url_dict, in the order the loop visits them
Years == <<2020, 2021, 2022>>

NoPipeline ==
    /\ obs = <<>>
    /\ pc = "idle"
    /\ df = <<>>
    /\ all_dates = <<>>
    /\ affiliations = <<>>
    /\ df_weekly_sum = <<>>
    /\ df_total_rolling = <<>>
    /\ csv_weekly = <<>>
    /\ csv_7_day_avg = <<>>
    /\ outdir = FALSE
    /\ written = {}
    /\ run = 1
    /\ first_run = <<>>

\* the working directory may hold us-counties-<year>.csv files of an earlier run
InitImport ==
    /\ NoPipeline
    /\ import_pc = "downloading"
    /\ year_pos = 0
    /\ county_files \in [Range(Years) -> {"absent", "old"}]
    /\ log = <<>>
    /\ la_csv = <<>>

\* one pass of the loop: urlretrieve succeeds and replaces the year's file
DownloadSaved ==
    /\ import_pc = "downloading"
    /\ year_pos < Len(Years)
    /\ LET year == Years[year_pos + 1]
       IN /\ county_files' = [county_files EXCEPT ![year] = "new"]
          /\ log' = log \o <<[level |-> "info", msg |-> "starting", year |-> year],
                             [level |-> "info", msg |-> "saved", year |-> year]>>
    /\ year_pos' = year_pos + 1
    /\ UNCHANGED <<import_pc, la_csv>>
    /\ UNCHANGED <<obs, pc, plot_vars, csv_weekly, csv_7_day_avg, run_vars>>

\* one pass of the loop: urlretrieve raises, the exception is caught and logged
\* (a connection failure: the year's file on disk is left as it was)
DownloadFailed ==
    /\ import_pc = "downloading"
    /\ year_pos < Len(Years)
    /\ LET year == Years[year_pos + 1]
       IN log' = log \o <<[level |-> "info", msg |-> "starting", year |-> year],
                          [level |-> "error", msg |-> "error", year |-> year]>>
    /\ year_pos' = year_pos + 1
    /\ UNCHANGED <<import_pc, county_files, la_csv>>
    /\ UNCHANGED <<obs, pc, plot_vars, csv_weekly, csv_7_day_avg, run_vars>>

\* one pass of the loop: the transfer breaks off after urlretrieve opened the
\* year's file for writing; the exception is caught and logged, a truncated
\* file stays on disk
DownloadTruncated ==
    /\ import_pc = "downloading"
    /\ year_pos < Len(Years)
    /\ LET year == Years[year_pos + 1]
       IN /\ county_files' = [county_files EXCEPT ![year] = "truncated"]
          /\ log' = log \o <<[level |-> "info", msg |-> "starting", year |-> year],
                             [level |-> "error", msg |-> "error", year |-> year]>>
    /\ year_pos' = year_pos + 1
    /\ UNCHANGED <<import_pc, la_csv>>
    /\ UNCHANGED <<obs, pc, plot_vars, csv_weekly, csv_7_day_avg, run_vars>>

\* df_dict = {year: pd.read_csv(f'us-counties-{year}.csv') for year in url_dict}:
\* every year is read; a missing file raises FileNotFoundError, nothing catches it
LoadCountyData ==
    /\ import_pc = "downloading"
    /\ year_pos = Len(Years)
    /\ import_pc' = IF \E y \in Range(Years) : county_files[y] = "absent"
                    THEN "aborted" ELSE "loaded"
    /\ UNCHANGED <<year_pos, county_files, log, la_csv>>
    /\ UNCHANGED <<obs, pc, plot_vars, csv_weekly, csv_7_day_avg, run_vars>>

\* la_df.to_csv('los_angeles_covid_cases.csv'): the years' rows, concatenated
ExportLaData ==
    /\ import_pc = "loaded"
    /\ la_csv' = [i \in DOMAIN Years |-> <<Years[i], county_files[Years[i]]>>]
    /\ import_pc' = "done"
    /\ UNCHANGED <<year_pos, county_files, log>>
    /\ UNCHANGED <<obs, pc, plot_vars, csv_weekly, csv_7_day_avg, run_vars>>

NextImport ==
    \/ DownloadSaved
    \/ DownloadFailed
    \/ DownloadTruncated
    \/ LoadCountyData
    \/ ExportLaData

SpecImport == InitImport /\ [][NextImport]_vars

----------------------------------------------------------------------------
(* Vocabulary of the properties *)

\* the plot script has loaded the dense daily table
Loaded == pc \in {"loaded", "summed", "plotted"}

\* the plot script has computed the weekly sums
Summed == pc \in {"summed", "plotted"}

\* the end of the covered date range: the date load_caltech_data and
\* calculate_rolling_avg read from the file
last_observed_date == obs[Len(obs)].date

CoveredDays == start_date .. last_observed_date

ObsAffiliations == {obs[i].affiliation : i \in DOMAIN obs}

ObsDatesPresent == {obs[i].date : i \in DOMAIN obs}

\* sum of the case counts of the observations of one date and affiliation
ObsSum(d, a) ==
    SumCase(SelectSeq(obs, LAMBDA r : r.date = d /\ r.affiliation = a))

\* sum of the case counts of the observations of one affiliation
ObsSumOf(a) == SumCase(SelectSeq(obs, LAMBDA r : r.affiliation = a))

\* sum of the case counts of the observations of one date
ObsTotal(d) == SumCase(SelectSeq(obs, LAMBDA r : r.date = d))

----------------------------------------------------------------------------
(* C1 *)

\* C1: in the table load_caltech_data returns, every date of
\* [pandemicStart, last_observed_date] and every affiliation of the observations
\* has an entry whose case count is the sum of the matching observations
\* (duplicates summed), 0 when there is none.
C1_FillAndSum ==
    Loaded =>
        \A d \in CoveredDays, a \in ObsAffiliations :
            \E i \in DOMAIN df :
                /\ df[i].date = d
                /\ df[i].affiliation = a
                /\ df[i]["case"] = ObsSum(d, a)

\* a covered date and affiliation observed twice, and a zero-filled entry
C1_Witness ==
    /\ pc = "loaded"
    /\ \E i, j \in DOMAIN obs :
          /\ i < j
          /\ obs[i].date = obs[j].date
          /\ obs[i].affiliation = obs[j].affiliation
          /\ obs[i].date \in CoveredDays
          /\ \E k \in DOMAIN df :
                /\ df[k].date = obs[i].date
                /\ df[k].affiliation = obs[i].affiliation
                /\ df[k]["case"] = obs[i]["case"] + obs[j]["case"]
    /\ \E k \in DOMAIN df : df[k]["case"] = 0

----------------------------------------------------------------------------
(* C2 *)

\* C2: the table load_caltech_data returns has exactly
\* (days in [pandemicStart, last_observed_date]) x (distinct affiliations) rows
\* and no (date, affiliation) pair twice, also with observations dated before
\* pandemicStart or rows out of date order.
C2_Density ==
    Loaded =>
        /\ Len(df) = Cardinality(CoveredDays) * Cardinality(ObsAffiliations)
        /\ \A i, j \in DOMAIN df :
              (df[i].date = df[j].date /\ df[i].affiliation = df[j].affiliation)
                  => i = j

----------------------------------------------------------------------------
(* C3 *)

\* C3: for every affiliation, the case counts of its rows in the dense daily
\* table add up to the case counts of its observations.
C3_SumConservation ==
    Loaded =>
        \A a \in Affiliations :
            SumCase(SelectSeq(df, LAMBDA r : r.affiliation = a)) = ObsSumOf(a)

\* the table holds an observation dated outside the covered range
C3_Witness ==
    /\ pc = "loaded"
    /\ \E i \in DOMAIN obs :
          /\ obs[i].date \notin CoveredDays
          /\ \E k \in DOMAIN df :
                df[k].date = obs[i].date /\ df[k]["case"] > 0
    /\ \E i \in DOMAIN obs : obs[i].date \in CoveredDays

----------------------------------------------------------------------------
(* C4 *)

\* total of the case counts on the i-th day (0-indexed) of the covered range
Total(i) == ObsTotal(start_date + i)

RECURSIVE SumTotal(_, _)
SumTotal(from, to) ==
    IF to < from THEN 0 ELSE Total(to) + SumTotal(from, to - 1)

\* a rolling average series, read by position from the first covered day
RollingWindowCorrect(out) ==
    /\ \A i \in 0..(Cardinality(CoveredDays) - 1) :
          /\ i + 1 \in DOMAIN out
          /\ i >= 6 => out[i + 1]["case"] = <<SumTotal(i - 6, i), 7>>
    /\ \A i \in 0..5 : i + 1 \in DOMAIN out => out[i + 1]["case"] = NaN

\* C4: the rolling average at every index i >= 6 of the covered range is
\* (total[i-6] + ... + total[i]) / 7, and it is null at indices 0..5, in the
\* series of caltech_daily_average and in that of calculate_rolling_avg.
C4_RollingWindow ==
    /\ pc = "plotted" => RollingWindowCorrect(df_total_rolling)
    /\ pc = "processed" => RollingWindowCorrect(csv_7_day_avg)

----------------------------------------------------------------------------
(* C5 *)

\* positions of the daily rows of affiliation a dated in the week labelled w:
\* after the 7-day shift the bucket w holds the days w+1 .. w+7
DailyRowsOfBucket(a, w) ==
    {i \in DOMAIN df : df[i].affiliation = a /\ df[i].date \in (w + 1)..(w + 7)}

RECURSIVE SumRows(_)
SumRows(I) ==
    IF I = {} THEN 0
    ELSE LET i == CHOOSE x \in I : TRUE
         IN df[i]["case"] + SumRows(I \ {i})

\* C5 (as stated): every bucket caltech_weekly_sums retains holds exactly 7
\* daily rows of its affiliation and its total is their sum.
C5_SevenRowsEveryBucket ==
    Summed =>
        \A k \in DOMAIN df_weekly_sum :
            LET b == df_weekly_sum[k]
                I == DailyRowsOfBucket(b.affiliation, b.week_of)
            IN /\ Cardinality(I) = 7
               /\ b.total_cases = SumRows(I)

\* C5 (amended): the total of every retained bucket is the sum of the daily
\* rows of its affiliation that fall in it; these are between 1 and 7 rows, and
\* exactly 7 when the bucket's week lies within [pandemicStart, last_observed_date].
C5_WeeklyConservation ==
    Summed =>
        \A k \in DOMAIN df_weekly_sum :
            LET b == df_weekly_sum[k]
                I == DailyRowsOfBucket(b.affiliation, b.week_of)
            IN /\ Cardinality(I) \in 1..7
               /\ (b.week_of + 1 >= start_date /\ b.week_of + 7 <= last_observed_date)
                     => Cardinality(I) = 7
               /\ b.total_cases = SumRows(I)

\* a retained full week with cases next to a retained partial week
C5_Witness ==
    /\ pc = "summed"
    /\ \A i \in DOMAIN obs : obs[i].date \in CoveredDays
    /\ \E k \in DOMAIN df_weekly_sum :
          /\ Cardinality(DailyRowsOfBucket(df_weekly_sum[k].affiliation,
                                           df_weekly_sum[k].week_of)) = 7
          /\ df_weekly_sum[k].total_cases > 0
    /\ \E k \in DOMAIN df_weekly_sum :
          Cardinality(DailyRowsOfBucket(df_weekly_sum[k].affiliation,
                                        df_weekly_sum[k].week_of)) < 7

----------------------------------------------------------------------------
(* C6 *)

\* the (affiliation, week) buckets of the daily table before any row is dropped
AllBuckets ==
    {<<df[i].affiliation, week_label(df[i].date - SHIFT_DAYS)>> : i \in DOMAIN df}

\* the chronologically first bucket of every affiliation
FirstBuckets ==
    {b \in AllBuckets : \A c \in AllBuckets : c[1] = b[1] => b[2] <= c[2]}

RetainedBuckets ==
    {<<df_weekly_sum[k].affiliation, df_weekly_sum[k].week_of>> :
        k \in DOMAIN df_weekly_sum}

\* C6: the rows caltech_weekly_sums removes are exactly the first week bucket
\* of every affiliation, also when the affiliations do not share their
\* earliest bucket.
C6_DropsFirstBucketPerAffiliation ==
    Summed => RetainedBuckets = AllBuckets \ FirstBuckets

----------------------------------------------------------------------------
(* C7 *)

\* [(2020-03-08, students, 2), (2020-03-09, students, 3)]
Example ==
    <<[date |-> 67, affiliation |-> "students", case |-> 2],
      [date |-> 68, affiliation |-> "students", case |-> 3]>>

ExampleDailyAndRolling ==
    /\ Loaded => df = Example
    /\ pc = "plotted" =>
          df_total_rolling = <<[date |-> 67, case |-> NaN], [date |-> 68, case |-> NaN]>>
    /\ pc = "processed" =>
          csv_7_day_avg = <<[date |-> 67, case |-> NaN], [date |-> 68, case |-> NaN]>>

\* C7 (as stated): on the example the dense table is {03-08: 2, 03-09: 3}, the
\* rolling average is undefined on both days and the weekly output is empty.
C7_ExampleWeeklyEmpty ==
    obs = Example =>
        /\ ExampleDailyAndRolling
        /\ Summed => df_weekly_sum = <<>>

\* C7 (amended): on the example the dense table is {03-08: 2, 03-09: 3}, the
\* rolling average is undefined on both days, and the shift yields two buckets:
\* week of 03-01 (holding 03-08) is dropped, week of 03-08 (holding 03-09,
\* total 3) is the weekly output.
C7_Example ==
    obs = Example =>
        /\ ExampleDailyAndRolling
        /\ Summed =>
              df_weekly_sum =
                  <<[affiliation |-> "students", week_of |-> 67, total_cases |-> 3]>>

C7_Witness == obs = Example /\ pc = "plotted" /\ Len(df_weekly_sum) = 1

----------------------------------------------------------------------------
(* C8 *)

\* the observations dated after every observation of the file
LaterObservations ==
    {o \in Observation : \A d \in ObsDatesPresent : o.date > d}

\* the file with one more row, the rows already there keeping their order
InsertAt(rows, k, o) ==
    SubSeq(rows, 1, k) \o <<o>> \o SubSeq(rows, k + 1, Len(rows))

----------------------------------------------------------------------------
(* C9 *)

\* C9: the end of the date range covered by load_caltech_data and by
\* calculate_rolling_avg is the maximum date of the observations, whatever
\* the order of the rows.
C9_LastObservedIsMax ==
    /\ Loaded => all_dates = date_range(start_date, Max(ObsDatesPresent))
    /\ pc = "processed" =>
          [i \in DOMAIN csv_7_day_avg |-> csv_7_day_avg[i].date]
              = date_range(START_DATE, Max(ObsDatesPresent))

----------------------------------------------------------------------------
(* C10 *)

\* every reordering of the rows of a file
Reorderings(rows) ==
    {[i \in DOMAIN rows |-> rows[f[i]]] :
        f \in {g \in [DOMAIN rows -> DOMAIN rows] :
                  \A i, j \in DOMAIN rows : i # j => g[i] # g[j]}}

\* C10: for every permutation of the rows, load_caltech_data returns the same
\* dense table, and the weekly totals and the rolling averages are the same.
C10_OrderIrrelevant ==
    \A p \in Reorderings(obs) :
        /\ Loaded => load_caltech_data(p).df = df
        /\ Summed =>
              \E w \in caltech_weekly_sums(load_caltech_data(p).df) :
                  Range(w) = Range(df_weekly_sum)
        /\ pc = "plotted" =>
              caltech_daily_average(load_caltech_data(p).df) = df_total_rolling
        /\ pc = "processed" => calculate_rolling_avg(p) = csv_7_day_avg

----------------------------------------------------------------------------
(* C11 *)

\* C11: on a file without observations the run ends in an error and no
\* downstream stage (weekly aggregation, rolling average, writing of an output
\* file) is executed before it.
C11_EmptyInputFatal ==
    obs = <<>> =>
        /\ pc \notin {"loaded", "summed", "plotted", "weekly_written", "processed"}
        /\ written = {}

----------------------------------------------------------------------------
(* C12 *)

\* a run of the process script has ended
RunEnded == pc \in {"processed", "process_failed"}

----------------------------------------------------------------------------
(* C14 *)

\* C14: a run of the process script that ends in failure has written neither
\* the weekly totals file nor the rolling average file.
C14_NoPartialOutput ==
    pc = "process_failed" => written = {}

----------------------------------------------------------------------------
(* C13 *)

\* the years whose download failed in this run
FailedYears ==
    {log[i].year : i \in {j \in DOMAIN log : log[j].level = "error"}}

\* C13: whatever downloads fail, every year is attempted, each failure is
\* logged, and the run goes on to load the periods and to write the combined
\* LA County table, also when a failed year has no file of an earlier run.
C13_DownloadFailureSkipped ==
    /\ import_pc \in {"loaded", "done", "aborted"} => year_pos = Len(Years)
    /\ \A y \in Range(Years) :
          (import_pc \in {"loaded", "done", "aborted"} /\ county_files[y] # "new")
              => y \in FailedYears
    /\ import_pc # "aborted"

----------------------------------------------------------------------------
(* C15 *)

SUNDAY == 6

\* C15: pandemicStart is the Sunday on or immediately before 2020-03-11, that
\* is 2020-03-08 (three days before it); the process script (START_DATE) and the
\* plot scripts (start_date) use the same value, and it is the first date of
\* the ranges both build.
C15_PandemicStart ==
    /\ weekday(START_DATE) = SUNDAY
    /\ START_DATE <= WHO_DATE
    /\ \A d \in (START_DATE + 1)..WHO_DATE : weekday(d) # SUNDAY
    /\ START_DATE = WHO_DATE - (weekday(WHO_DATE) + 1)
    /\ start_date = START_DATE
    /\ (Loaded /\ all_dates # <<>>) => all_dates[1] = WHO_DATE - (weekday(WHO_DATE) + 1)
    /\ (pc = "processed" /\ csv_7_day_avg # <<>>)
          => csv_7_day_avg[1].date = WHO_DATE - (weekday(WHO_DATE) + 1)

C15_Witness ==
    /\ pc = "processed"
    /\ csv_7_day_avg # <<>>
    /\ csv_7_day_avg[1].date = START_DATE
    /\ weekday(csv_7_day_avg[1].date) = SUNDAY

----------------------------------------------------------------------------
(* C16 *)

\* s holds every day from start to end exactly once, in ascending order
IsDayRange(s, start, end) ==
    /\ Len(s) = IF end < start THEN 0 ELSE end - start + 1
    /\ \A i \in DOMAIN s : s[i] = start + (i - 1)
    /\ \A d \in start..end : Cardinality({i \in DOMAIN s : s[i] = d}) = 1

\* C16: the date ranges the scripts build hold every day from pandemicStart to
\* the last observed date exactly once in ascending order, and are empty, without
\* error, when the last observed date is earlier; then the rolling average
\* output is empty and the loaded table has no zero-filled row (every row of it
\* is the date and affiliation of an observation).
C16_DateRange ==
    /\ \A start, end \in ObsDates : IsDayRange(date_range(start, end), start, end)
    /\ Loaded => IsDayRange(all_dates, start_date, last_observed_date)
    /\ pc = "processed" =>
          IsDayRange([i \in DOMAIN csv_7_day_avg |-> csv_7_day_avg[i].date],
                     START_DATE, last_observed_date)
    /\ (obs # <<>> /\ last_observed_date < START_DATE) =>
          /\ pc \notin {"load_failed", "process_failed"}
          /\ pc = "processed" => csv_7_day_avg = <<>>
          /\ Loaded =>
                /\ all_dates = <<>>
                /\ \A i \in DOMAIN df : \E j \in DOMAIN obs :
                      /\ obs[j].date = df[i].date
                      /\ obs[j].affiliation = df[i].affiliation

C16_Witness ==
    /\ obs # <<>>
    /\ last_observed_date < START_DATE
    /\ pc = "processed"
    /\ csv_7_day_avg = <<>>
    /\ "caltech_covid_cases_7_day_avg.csv" \in written

----------------------------------------------------------------------------
(* C17 *)

\* the sum of the observed daily totals of the WINDOW days ending at day d
WindowTotal(d) ==
    LET days == date_range(d - (WINDOW - 1), d)
    IN SumCase([k \in DOMAIN days |-> [case |-> ObsTotal(days[k])]])

\* C17: the series calculate_rolling_avg writes has exactly one entry per day of
\* [pandemicStart, last_observed_date], in ascending date order, and each
\* defined entry averages the observed totals of its 7 days, a day without
\* observation counting as 0.
C17_OneEntryPerDay ==
    pc = "processed" =>
        /\ Len(csv_7_day_avg) = Cardinality(START_DATE..last_observed_date)
        /\ \A i \in DOMAIN csv_7_day_avg :
              /\ csv_7_day_avg[i].date = START_DATE + (i - 1)
              /\ csv_7_day_avg[i]["case"] =
                    IF i < WINDOW THEN NaN
                    ELSE <<WindowTotal(csv_7_day_avg[i].date), WINDOW>>

\* a defined average whose window holds a day without observation and a day with
C17_Witness ==
    /\ pc = "processed"
    /\ \E i \in DOMAIN csv_7_day_avg :
          /\ csv_7_day_avg[i]["case"] # NaN
          /\ csv_7_day_avg[i]["case"][1] > 0
          /\ \E d \in (csv_7_day_avg[i].date - (WINDOW - 1))..csv_7_day_avg[i].date :
                d \notin ObsDatesPresent

----------------------------------------------------------------------------
(* C18 *)

\* the files that extend obs by one observation dated after all of its own
Extensions ==
    {InsertAt(obs, k, o) : o \in LaterObservations, k \in 0..Len(obs)}

\* the table load_caltech_data has just returned keeps the value of every
\* (date, affiliation) it holds when the file is extended
DenseTableStable ==
    pc = "loaded" =>
        \A ext \in Extensions :
            LET extended == load_caltech_data(ext).df
            IN \A i \in DOMAIN df : \E j \in DOMAIN extended : extended[j] = df[i]

WeekEnded(w) == \A o \in LaterObservations : w + SHIFT_DAYS < o.date

----------------------------------------------------------------------------
(* C19 *)

\* C19: no row of the weekly totals file the process script writes has a
\* 'week of' value earlier than pandemicStart.
C19_NoWeekBeforeStart ==
    pc \in {"weekly_written", "processed"} =>
        \A r \in Range(csv_weekly) : r.week_of >= START_DATE

----------------------------------------------------------------------------
(* C20 *)

\* the sum of the observed case counts of one affiliation over a span of days
ObsSumOver(a, from, to) ==
    LET days == date_range(from, to)
    IN SumCase([k \in DOMAIN days |-> [case |-> ObsSum(days[k], a)]])

\* every 'week of' value is a Sunday a whole number of weeks from pandemicStart
LabelsAligned(rows) ==
    \A r \in Range(rows) :
        /\ weekday(r.week_of) = SUNDAY
        /\ (r.week_of - START_DATE) % SHIFT_DAYS = 0

\* C20 as stated: the labels are aligned Sundays and the total labelled W is the
\* sum of the affiliation's daily counts over the days W .. W+6.
C20_WeekBeginsAtLabel ==
    pc = "weekly_written" =>
        /\ LabelsAligned(csv_weekly)
        /\ \A r \in Range(csv_weekly) :
              r.total_cases = ObsSumOver(r.affiliation, r.week_of, r.week_of + SHIFT_DAYS - 1)

\* C20, amended: the labels are aligned Sundays and the total labelled W is the
\* sum of the affiliation's daily counts over the 7 days that follow W (the
\* Monday W+1 to the Sunday W+7); the file of sum_by_week has one row for every
\* affiliation and week with an observation in those days.
C20_WeekFollowsLabel ==
    /\ pc = "weekly_written" =>
          /\ LabelsAligned(csv_weekly)
          /\ \A r \in Range(csv_weekly) :
                r.total_cases =
                    ObsSumOver(r.affiliation, r.week_of + 1, r.week_of + SHIFT_DAYS)
          /\ \A i \in DOMAIN obs :
                Cardinality({k \in DOMAIN csv_weekly :
                    /\ csv_weekly[k].affiliation = obs[i].affiliation
                    /\ obs[i].date \in (csv_weekly[k].week_of + 1)
                                         ..(csv_weekly[k].week_of + SHIFT_DAYS)}) = 1
    /\ pc = "summed" =>
          /\ LabelsAligned(df_weekly_sum)
          /\ \A r \in Range(df_weekly_sum) :
                r.total_cases =
                    ObsSumOver(r.affiliation, r.week_of + 1, r.week_of + SHIFT_DAYS)

\* a week whose label is a day with cases (not counted in it) and whose last
\* day, the next Sunday, has cases (counted in it)
C20_Witness ==
    /\ pc = "weekly_written"
    /\ \E r \in Range(csv_weekly) :
          /\ ObsSum(r.week_of, r.affiliation) > 0
          /\ ObsSum(r.week_of + SHIFT_DAYS, r.affiliation) > 0
          /\ r.total_cases > 0

----------------------------------------------------------------------------
(* C21 *)

\* C21: the stages leave the table passed in as it was: after the weekly stage
\* and after the rolling average stage the rows are those of the file, dates
\* not shifted, and the rolling average stage run after the weekly stage works
\* on the table the weekly stage received (both outputs are those of the table
\* as it is at the end).
C21_InputNotMutated ==
    /\ obs \in Files
    /\ Loaded => df = load_caltech_data(obs).df
    /\ Summed => df_weekly_sum \in caltech_weekly_sums(df)
    /\ pc = "plotted" => df_total_rolling = caltech_daily_average(df)
    /\ pc \in {"weekly_written", "processed"} => csv_weekly \in sum_by_week(obs)
    /\ pc = "processed" => csv_7_day_avg = calculate_rolling_avg(obs)

\* both stages of the process script have run on a file with cases, and the
\* weekly rows carry the shifted dates while the file keeps its own
C21_Witness ==
    /\ pc = "processed"
    /\ csv_weekly # <<>>
    /\ \A i \in DOMAIN obs : \A r \in Range(csv_weekly) : r.week_of < obs[i].date
    /\ \E i \in DOMAIN csv_7_day_avg : csv_7_day_avg[i]["case"] # NaN

----------------------------------------------------------------------------
(* C22 *)

\* the rows are in non-decreasing order of 'week of', and the weeks of one
\* affiliation are strictly ascending
WeeksAscending(rows) ==
    \A i, j \in DOMAIN rows :
        i < j =>
            /\ rows[i].week_of <= rows[j].week_of
            /\ rows[i].affiliation = rows[j].affiliation
                  => rows[i].week_of < rows[j].week_of

\* C22: the rows of the weekly totals are in non-decreasing order of 'week of',
\* strictly ascending within an affiliation, in the file of sum_by_week and in
\* the frame of caltech_weekly_sums after its first rows are dropped.
C22_WeeklyOutputSorted ==
    /\ pc \in {"weekly_written", "processed"} => WeeksAscending(csv_weekly)
    /\ Summed => WeeksAscending(df_weekly_sum)

\* a weekly file where the affiliation that sorts last has the earlier week
C22_Witness ==
    /\ pc = "weekly_written"
    /\ \E i, j \in DOMAIN csv_weekly :
          /\ i < j
          /\ csv_weekly[i].week_of < csv_weekly[j].week_of
          /\ AffOrd[csv_weekly[i].affiliation] > AffOrd[csv_weekly[j].affiliation]

----------------------------------------------------------------------------
(* C23 *)

\* C23: the series calculate_rolling_avg computes from the raw observations
\* equals, date for date, the series caltech_daily_average computes from the
\* table of load_caltech_data: both have the same dates and the same value at
\* each.
C23_RollingAveragesAgree ==
    pc = "plotted" =>
        LET direct == calculate_rolling_avg(obs)
        IN /\ {direct[i].date : i \in DOMAIN direct}
                 = {df_total_rolling[j].date : j \in DOMAIN df_total_rolling}
           /\ \A i \in DOMAIN direct, j \in DOMAIN df_total_rolling :
                 direct[i].date = df_total_rolling[j].date
                     => direct[i]["case"] = df_total_rolling[j]["case"]

====
